---------------------------- MODULE Spec2Model ----------------------------
(***************************************************************************)
(* Availability slicer of the booking page (src/lib/utils/availability.ts).*)
(*                                                                         *)
(* Instants are JavaScript Date values: milliseconds, here counted from    *)
(* 2025-12-15T00:00:00.000Z.  Timestamps are the ISO-8601 strings of the   *)
(* availability API, kept as records of their fields so that parsing and   *)
(* formatting are computed and not assumed.  The executing environment's   *)
(* time zone is a fixed offset tz, in minutes east of UTC; Date getters,   *)
(* Date setters and date-fns format() all work on local time under tz.     *)
(* Daylight-saving transitions of the environment's zone are not modelled.  *)
(***************************************************************************)
EXTENDS Integers, Sequences, FiniteSets, TLC

VARIABLES
    tz,              \* environment's UTC offset, minutes east of UTC
    availability,    \* AvailabilitySlot[]: the windows handed to the slicer
    selectedDate,    \* the dateKey argument ("" when no date is selected)
    thirtyMinSlots,  \* result of generateThirtyMinuteSlots
    dates,           \* result of getDatesWithAvailability
    date,            \* the Date argument of roundToNearestSlotBoundary
    rounded,         \* result of roundToNearestSlotBoundary
    done,            \* names of the functions that have returned
    userTimestamp,   \* timestamp of the visitor's clock (getUserTimestamp)
    orgTimestamp,    \* timestamp of the organisation (availability[0].start)
    fallbackTimezone,\* second argument of getTimezoneFromOffset
    userOffset,      \* result of parseOffsetFromTimestamp(userTimestamp)
    show,            \* result of shouldShowTimezoneSelector
    timezone,        \* result of getTimezoneFromOffset(orgTimestamp, fallback)
    today,           \* the local date of the clock, <<year, month, day>>
    url,             \* the start and end query parameters of the page URL
    loadPc,          \* where load is: "idle", "called", "redirected", "fetching",
                     \* "returned", "thrown"
    apiRequest,      \* the start and end that load sent to the availability API
    fetchOutcome,    \* how the availability fetch ended
    data,            \* what load returned
    body,            \* the body of the request to the booking proxy
    postPc,          \* where POST is: "idle", "received", "forwarded", "responded"
    forwards,        \* number of calls made to the external booking API
    upstream,        \* how the call to the external API ended
    reply,           \* the response of the booking proxy
    props,           \* the props of a CalendarDayButton
    clicks,          \* number of clicks made on the button
    onSelectCalls,   \* the arguments of the calls of onSelect, in order
    drawerOpen,      \* page: whether the meeting drawer is open
    selectedSlot,    \* page: the slot handed to the drawer
    confirmedMeeting,\* page: the confirmed meeting
    name,            \* drawer: the name field
    email,           \* drawer: the email field
    emailError,      \* drawer: the message under the email field
    isSubmitting,    \* drawer: a submission is under way
    isConfirmed,     \* drawer: the confirmation is shown
    inFlight,        \* the createBooking requests that have not settled
    settled,         \* how the settled createBooking requests ended
    detectedTimezone,\* page: the visitor's IANA zone
    selectedTimezone \* page: the zone the times are shown in

sliceVars == <<tz, availability, selectedDate, thirtyMinSlots, dates, date, rounded>>
timezoneVars == <<userTimestamp, orgTimestamp, fallbackTimezone, userOffset, show, timezone>>
loadVars == <<today, url, loadPc, apiRequest, fetchOutcome, data>>
proxyVars == <<body, postPc, forwards, upstream, reply>>
buttonVars == <<props, clicks, onSelectCalls>>
drawerVars == <<name, email, emailError, isSubmitting, isConfirmed>>
pageVars ==
    <<drawerOpen, selectedSlot, confirmedMeeting, drawerVars, inFlight, settled,
      detectedTimezone, selectedTimezone>>

vars == <<sliceVars, done, timezoneVars, loadVars, proxyVars, buttonVars, pageVars>>

(***************************************************************************)
(* Bounds and input sets                                                   *)
(***************************************************************************)
MaxWindows == 3

EpochDay == 15    \* day of December 2025 on which instant 0 falls

EnvOffsets == {0, -300, 345}    \* UTC, UTC-05:00, UTC+05:45

MsPerSecond == 1000
MsPerMinute == 60 * MsPerSecond
MsPerHour == 60 * MsPerMinute
MsPerDay == 24 * MsPerHour

SuffixZ == [kind |-> "Z", sign |-> "+", hh |-> <<0, 0>>, mm |-> <<0, 0>>]
SuffixMinus5 == [kind |-> "offset", sign |-> "-", hh |-> <<0, 5>>, mm |-> <<0, 0>>]
SuffixPlus530 == [kind |-> "offset", sign |-> "+", hh |-> <<0, 5>>, mm |-> <<3, 0>>]

Suffixes == {SuffixZ, SuffixMinus5, SuffixPlus530}

\* The timestamp string "2025-12-<day>T<hour>:<minute>:<second>.<ms><suffix>"
Ts(d, h, mi, s, ms, sfx) ==
    [day |-> d, hour |-> h, minute |-> mi, second |-> s, ms |-> ms, suffix |-> sfx]

(***************************************************************************)
(* JavaScript Date and date-fns                                            *)
(***************************************************************************)
TwoDigits(n) ==
    LET digit == <<"0", "1", "2", "3", "4", "5", "6", "7", "8", "9">>
    IN  digit[(n \div 10) + 1] \o digit[(n % 10) + 1]

Num(pair) == 10 * pair[1] + pair[2]

\* minutes east of UTC that a timestamp's suffix denotes
SuffixOffset(sfx) ==
    IF sfx.kind = "Z" THEN 0
    ELSE IF sfx.kind = "none" THEN tz
    ELSE (IF sfx.sign = "-" THEN -1 ELSE 1) * (60 * Num(sfx.hh) + Num(sfx.mm))

\* new Date(isoString)
newDate(ts) ==
    (((ts.day - EpochDay) * 24 + ts.hour) * 60 + ts.minute - SuffixOffset(ts.suffix))
        * MsPerMinute
    + ts.second * MsPerSecond + ts.ms

LocalMs(d) == d + tz * MsPerMinute
getDay(d) == LocalMs(d) \div MsPerDay
getHours(d) == (LocalMs(d) % MsPerDay) \div MsPerHour
getMinutes(d) == (LocalMs(d) % MsPerHour) \div MsPerMinute
getSeconds(d) == (LocalMs(d) % MsPerMinute) \div MsPerSecond
getMilliseconds(d) == LocalMs(d) % MsPerSecond

\* the instant whose local fields are the given ones; fields out of range
\* carry into the next unit, as Date's setters do
MakeDate(day, h, mi, s, ms) ==
    ((day * 24 + h) * 60 + mi) * MsPerMinute + s * MsPerSecond + ms - tz * MsPerMinute

setHours(d, h) == MakeDate(getDay(d), h, getMinutes(d), getSeconds(d), getMilliseconds(d))
setMinutes(d, mi) == MakeDate(getDay(d), getHours(d), mi, getSeconds(d), getMilliseconds(d))
setSeconds(d, s) == MakeDate(getDay(d), getHours(d), getMinutes(d), s, getMilliseconds(d))
addMinutes(d, amount) == d + amount * MsPerMinute
\* the arguments taken in the wrong order
isBefore_swapped(d, dateToCompare) == dateToCompare < d

isBefore(d, dateToCompare) == d < dateToCompare

\* format(date, 'yyyy-MM-dd')
format(d) == "2025-12-" \o TwoDigits(EpochDay + getDay(d))

\* the calendar date written in the timestamp string itself
WrittenDate(ts) == "2025-12-" \o TwoDigits(ts.day)

(***************************************************************************)
(* src/lib/utils/availability.ts                                           *)
(***************************************************************************)
SlotMinutes == 30

\* buckets a window by its end
RECURSIVE getDatesWithAvailability_byEnd(_)
getDatesWithAvailability_byEnd(av) ==
    IF av = <<>> THEN {}
    ELSE getDatesWithAvailability_byEnd(SubSeq(av, 1, Len(av) - 1))
             \cup {format(newDate(av[Len(av)].end))}

RECURSIVE getDatesWithAvailability(_)
getDatesWithAvailability(av) ==
    IF av = <<>> THEN {}
    ELSE getDatesWithAvailability(SubSeq(av, 1, Len(av) - 1))
             \cup {format(newDate(av[Len(av)].start))}

\* a start on the boundary keeps its seconds
roundToNearestSlotBoundary_keepSeconds(d) ==
    LET minutes == getMinutes(d)
    IN  IF minutes > 0 /\ minutes < 30
        THEN setSeconds(setMinutes(d, 30), 0)
        ELSE IF minutes > 30
        THEN setSeconds(setMinutes(setHours(d, getHours(d) + 1), 0), 0)
        ELSE d

\* minute 30 is taken for the second half of the hour
roundToNearestSlotBoundary_from30(d) ==
    LET minutes == getMinutes(d)
    IN  IF minutes > 0 /\ minutes < 30
        THEN setSeconds(setMinutes(d, 30), 0)
        ELSE IF minutes >= 30
        THEN setSeconds(setMinutes(setHours(d, getHours(d) + 1), 0), 0)
        ELSE setSeconds(d, 0)

roundToNearestSlotBoundary(d) ==
    LET minutes == getMinutes(d)
    IN  IF minutes > 0 /\ minutes < 30
        THEN setSeconds(setMinutes(d, 30), 0)
        ELSE IF minutes > 30
        THEN setSeconds(setMinutes(setHours(d, getHours(d) + 1), 0), 0)
        ELSE setSeconds(d, 0)

\* an if where the while is: at most one slot per block
SlotLoop_once(currentTime, endTime, acc) ==
    IF currentTime < endTime
    THEN LET slotEnd == addMinutes(currentTime, SlotMinutes)
         IN  IF ~isBefore(endTime, slotEnd)
             THEN Append(acc, [start |-> currentTime, end |-> slotEnd])
             ELSE acc
    ELSE acc

\* the while loop over one block: lines 111-120
RECURSIVE SlotLoop(_, _, _)
SlotLoop(currentTime, endTime, acc) ==
    IF currentTime < endTime
    THEN LET slotEnd == addMinutes(currentTime, SlotMinutes)
         IN  SlotLoop(slotEnd, endTime,
                      IF ~isBefore(endTime, slotEnd)
                      THEN Append(acc, [start |-> currentTime, end |-> slotEnd])
                      ELSE acc)
    ELSE acc

\* the slots of a block put in front of the earlier blocks' slots
RECURSIVE BlockLoop_unshift(_, _)
BlockLoop_unshift(daySlots, acc) ==
    IF daySlots = <<>> THEN acc
    ELSE LET block == Head(daySlots)
             startTime == newDate(block.start)
             endTime == newDate(block.end)
         IN  BlockLoop_unshift(Tail(daySlots),
                 SlotLoop(roundToNearestSlotBoundary(startTime), endTime, <<>>) \o acc)

\* the for loop over the blocks of the selected day: lines 103-121
RECURSIVE BlockLoop(_, _)
BlockLoop(daySlots, acc) ==
    IF daySlots = <<>> THEN acc
    ELSE LET block == Head(daySlots)
             startTime == newDate(block.start)
             endTime == newDate(block.end)
         IN  BlockLoop(Tail(daySlots),
                       SlotLoop(roundToNearestSlotBoundary(startTime), endTime, acc))

\* an empty selectedDate taken to mean every block
generateThirtyMinuteSlots_allWhenEmpty(av, sel) ==
    BlockLoop(IF sel = "" THEN av
              ELSE SelectSeq(av, LAMBDA slot : format(newDate(slot.start)) = sel), <<>>)

generateThirtyMinuteSlots(av, sel) ==
    IF sel = "" THEN <<>>
    ELSE BlockLoop(SelectSeq(av, LAMBDA slot : format(newDate(slot.start)) = sel), <<>>)

(***************************************************************************)
(* Inputs                                                                  *)
(***************************************************************************)
DateKeys == {"", "2025-12-15", "2025-12-16", "2025-12-17"}

\* Date arguments of roundToNearestSlotBoundary
RoundDates ==
    {newDate(Ts(16, h, mi, s, ms, SuffixZ)) :
        h \in {0, 9, 23}, mi \in 0..59, s \in {0, 1, 59}, ms \in {0, 999}}

\* single windows, for the per-window properties
StartStamps ==
    {Ts(16, h, mi, s, ms, sfx) :
        h \in {9, 23}, mi \in {0, 5, 29, 30, 31, 45, 59}, s \in {0, 30},
        ms \in {0, 500}, sfx \in Suffixes}

EndClocks == {<<16, 9>>, <<16, 10>>, <<16, 23>>, <<17, 0>>, <<17, 1>>}

EndStamps(sfx) ==
    {Ts(c[1], c[2], mi, 0, 0, sfx) : c \in EndClocks, mi \in {0, 15, 20, 30}}

SingleWindows ==
    UNION {{[start |-> st, end |-> en] : en \in EndStamps(st.suffix)} : st \in StartStamps}

\* windows of the lists handed to the slicer
ListWindows ==
    { [start |-> Ts(16, 9, 0, 0, 0, SuffixZ), end |-> Ts(16, 10, 15, 0, 0, SuffixZ)],
      [start |-> Ts(16, 7, 5, 0, 0, SuffixZ), end |-> Ts(16, 8, 0, 0, 0, SuffixZ)],
      [start |-> Ts(17, 9, 0, 0, 0, SuffixZ), end |-> Ts(17, 9, 20, 0, 0, SuffixZ)],
      [start |-> Ts(17, 23, 30, 0, 0, SuffixZ), end |-> Ts(18, 0, 30, 0, 0, SuffixZ)],
      [start |-> Ts(16, 23, 0, 0, 0, SuffixMinus5), end |-> Ts(17, 1, 0, 0, 0, SuffixMinus5)],
      [start |-> Ts(16, 23, 45, 0, 0, SuffixZ), end |-> Ts(17, 0, 30, 0, 0, SuffixZ)],
      [start |-> Ts(17, 0, 30, 0, 0, SuffixPlus530), end |-> Ts(17, 2, 0, 0, 0, SuffixPlus530)],
      [start |-> Ts(16, 9, 0, 30, 0, SuffixZ), end |-> Ts(16, 10, 0, 0, 0, SuffixZ)] }

WindowLists == UNION {[1..n -> ListWindows] : n \in 0..MaxWindows}

(***************************************************************************)
(* Specifications                                                          *)
(***************************************************************************)
\* the value of an argument that is not passed
Undefined == "<undefined>"

\* no call of timezone.ts is under way
TimezoneIdle ==
    /\ userTimestamp = Ts(16, 9, 0, 0, 0, SuffixZ)
    /\ orgTimestamp = Ts(16, 9, 0, 0, 0, SuffixZ)
    /\ fallbackTimezone = Undefined
    /\ userOffset = ""
    /\ show = FALSE
    /\ timezone = ""

\* a query parameter: searchParams.get gives null when it is absent
Absent == [present |-> FALSE, value |-> <<>>]
Param(chars) == [present |-> TRUE, value |-> chars]

NoData == [availability |-> <<>>, startDate |-> <<>>, endDate |-> <<>>, error |-> Undefined]

\* load is not running
LoadIdle ==
    /\ today = <<2025, 12, 16>>
    /\ url = [start |-> Absent, end |-> Absent]
    /\ loadPc = "idle"
    /\ apiRequest = [start |-> <<>>, end |-> <<>>]
    /\ fetchOutcome = "none"
    /\ data = NoData

NoReply == [status |-> 0, success |-> FALSE, from |-> "none"]

\* a JSON null
Null == "<null>"

NoBody ==
    [json |-> "none", start |-> Undefined, end |-> Undefined,
     attendees |-> [kind |-> "missing", list |-> <<>>]]

\* no request to the booking proxy
ProxyIdle ==
    /\ body = NoBody
    /\ postPc = "idle"
    /\ forwards = 0
    /\ upstream = [outcome |-> "none", status |-> 0]
    /\ reply = NoReply

\* an optional prop: passed with a value, or not passed
Passed(value) == [passed |-> TRUE, value |-> value]
NotPassed == [passed |-> FALSE, value |-> FALSE]

\* the props of a button before it is rendered
NoProps ==
    [dateStr |-> "", isSelected |-> FALSE, hasAvailability |-> FALSE,
     isPast |-> FALSE, isToday |-> FALSE, isBooked |-> NotPassed, variant |-> ""]

\* no CalendarDayButton is rendered
ButtonIdle ==
    /\ props = NoProps
    /\ clicks = 0
    /\ onSelectCalls = <<>>

\* selectedSlot and confirmedMeeting when they are null
NoSlot == [start |-> -1, end |-> -1]
NoMeeting == [name |-> <<>>, email |-> <<>>, start |-> -1, end |-> -1]

\* the drawer's form after the reset
DrawerReset ==
    /\ name = <<>>
    /\ email = <<>>
    /\ emailError = ""
    /\ isSubmitting = FALSE
    /\ isConfirmed = FALSE

\* the bookings page is not shown
PageIdle ==
    /\ drawerOpen = FALSE
    /\ selectedSlot = NoSlot
    /\ confirmedMeeting = NoMeeting
    /\ DrawerReset
    /\ inFlight = <<>>
    /\ settled = <<>>
    /\ detectedTimezone = ""
    /\ selectedTimezone = ""

NoResults ==
    /\ thirtyMinSlots = <<>>
    /\ dates = {}
    /\ rounded = 0
    /\ done = {}
    /\ TimezoneIdle
    /\ LoadIdle
    /\ ProxyIdle
    /\ ButtonIdle
    /\ PageIdle

\* lists of windows
Init ==
    /\ tz \in EnvOffsets
    /\ availability \in WindowLists
    /\ selectedDate \in DateKeys
    /\ date = 0
    /\ NoResults

\* one window
InitWindow ==
    /\ tz \in EnvOffsets
    /\ availability \in {<<w>> : w \in SingleWindows}
    /\ selectedDate \in DateKeys
    /\ date = 0
    /\ NoResults

\* one Date to round
InitRound ==
    /\ tz \in EnvOffsets
    /\ availability = <<>>
    /\ selectedDate = ""
    /\ date \in RoundDates
    /\ NoResults

CallGenerateThirtyMinuteSlots ==
    /\ "slots" \notin done
    /\ thirtyMinSlots' = generateThirtyMinuteSlots(availability, selectedDate)
    /\ done' = done \cup {"slots"}
    /\ UNCHANGED <<tz, availability, selectedDate, dates, date, rounded, timezoneVars, loadVars, proxyVars, buttonVars, pageVars>>

CallGetDatesWithAvailability ==
    /\ "dates" \notin done
    /\ dates' = getDatesWithAvailability(availability)
    /\ done' = done \cup {"dates"}
    /\ UNCHANGED <<tz, availability, selectedDate, thirtyMinSlots, date, rounded, timezoneVars, loadVars, proxyVars, buttonVars, pageVars>>

CallRoundToNearestSlotBoundary ==
    /\ "rounded" \notin done
    /\ rounded' = roundToNearestSlotBoundary(date)
    /\ done' = done \cup {"rounded"}
    /\ UNCHANGED <<tz, availability, selectedDate, thirtyMinSlots, dates, date, timezoneVars, loadVars, proxyVars, buttonVars, pageVars>>

Next ==
    \/ CallGenerateThirtyMinuteSlots
    \/ CallGetDatesWithAvailability

NextRound == CallRoundToNearestSlotBoundary

Spec == Init /\ [][Next]_vars
SpecWindow == InitWindow /\ [][Next]_vars
SpecRound == InitRound /\ [][NextRound]_vars

TypeOK ==
    /\ tz \in EnvOffsets
    /\ selectedDate \in DateKeys
    /\ done \subseteq {"slots", "dates", "rounded"}
    /\ dates \subseteq DateKeys \cup {"2025-12-14", "2025-12-18", "2025-12-19"}

(***************************************************************************)
(* Properties                                                              *)
(***************************************************************************)
SlotMs == 30 * 60 * 1000

SlotsReturned == "slots" \in done
OneWindow == Len(availability) = 1
W == availability[1]

\* the slots one window is said to yield: n = max(0, floor((end - r) / 30 min))
\* consecutive half hours from r, the rounded start
ExpectedSlots(w) ==
    LET r == roundToNearestSlotBoundary(newDate(w.start))
        span == newDate(w.end) - r
        n == IF span < 0 THEN 0 ELSE span \div SlotMs
    IN  [k \in 1..n |-> [start |-> r + (k - 1) * SlotMs, end |-> r + k * SlotMs]]

\* the concatenation, in list order, of the expected slots of the windows
\* whose key (keys[i] for window i) is sel
RECURSIVE ConcatWhere(_, _, _)
ConcatWhere(av, keys, sel) ==
    IF av = <<>> THEN <<>>
    ELSE (IF Head(keys) = sel THEN ExpectedSlots(Head(av)) ELSE <<>>)
             \o ConcatWhere(Tail(av), Tail(keys), sel)

LocalKeys == [i \in DOMAIN availability |-> format(newDate(availability[i].start))]
WrittenKeys == [i \in DOMAIN availability |-> WrittenDate(availability[i].start)]

\* C1: no slot derived from a window ends after the window's end; a final
\* partial slot is not emitted.
C1_NoOverrun ==
    (SlotsReturned /\ OneWindow) =>
        \A i \in DOMAIN thirtyMinSlots : thirtyMinSlots[i].end <= newDate(W.end)

\* slots were emitted and a partial half hour was left over at the end
C1_Witness ==
    /\ SlotsReturned /\ OneWindow
    /\ thirtyMinSlots # <<>>
    /\ thirtyMinSlots[Len(thirtyMinSlots)].end < newDate(W.end)

\* C2: no slot derived from a window starts before the window's start,
\* whatever the minute and second of the start are.
C2_NoSlotBeforeWindowStart ==
    (SlotsReturned /\ OneWindow) =>
        \A i \in DOMAIN thirtyMinSlots : thirtyMinSlots[i].start >= newDate(W.start)

\* C3: every slot is exactly 30 minutes wide and starts at minute 0 or 30,
\* second 0 (minute and second as the Date's getters give them).
C3_WidthAndAlignment ==
    SlotsReturned =>
        \A i \in DOMAIN thirtyMinSlots :
            /\ thirtyMinSlots[i].end - thirtyMinSlots[i].start = 30 * 60 * 1000
            /\ getMinutes(thirtyMinSlots[i].start) \in {0, 30}
            /\ getSeconds(thirtyMinSlots[i].start) = 0

\* slots of a window whose start is on no boundary and has seconds
C3_Witness ==
    /\ SlotsReturned /\ OneWindow
    /\ Len(thirtyMinSlots) >= 2
    /\ getSeconds(newDate(W.start)) # 0
    /\ getMinutes(newDate(W.start)) \in {0, 30}

\* C4: a window of the selected date yields exactly the n consecutive half
\* hours from its rounded start r, n = max(0, floor((end - r) / 30 min)), in
\* increasing order; a window written 09:00-10:15 yields two slots, one
\* written 09:00-09:20 none, and none when r is at or after the end.
C4_SlotCount ==
    (SlotsReturned /\ OneWindow /\ selectedDate # "" /\ LocalKeys[1] = selectedDate) =>
        /\ thirtyMinSlots = ExpectedSlots(W)
        /\ \A i \in 1..(Len(thirtyMinSlots) - 1) :
               thirtyMinSlots[i + 1].start = thirtyMinSlots[i].end
        /\ roundToNearestSlotBoundary(newDate(W.start)) >= newDate(W.end)
               => thirtyMinSlots = <<>>
        /\ ( /\ <<W.start.hour, W.start.minute, W.start.second, W.start.ms>> = <<9, 0, 0, 0>>
             /\ W.end.day = W.start.day )
               => /\ <<W.end.hour, W.end.minute>> = <<10, 15>> => Len(thirtyMinSlots) = 2
                  /\ <<W.end.hour, W.end.minute>> = <<9, 20>> => Len(thirtyMinSlots) = 0

\* the window written 09:00-10:15 has given its two slots
C4_Witness ==
    /\ SlotsReturned /\ OneWindow
    /\ <<W.start.hour, W.start.minute, W.start.second, W.start.ms>> = <<9, 0, 0, 0>>
    /\ <<W.end.day, W.end.hour, W.end.minute>> = <<W.start.day, 10, 15>>
    /\ Len(thirtyMinSlots) = 2

\* C5: rounding a Date with minute m: 0 < m < 30 gives :30 of the same hour;
\* m > 30 gives :00 of the next hour (of the next day from hour 23); m = 0 or
\* 30 keeps hour and minute; seconds are 0 in every case; rounding the result
\* again changes nothing.
C5_RoundUpPolicy ==
    "rounded" \in done =>
        LET m == getMinutes(date)
            h == getHours(date)
            dy == getDay(date)
            hm(x) == <<getDay(x), getHours(x), getMinutes(x)>>
        IN  /\ (m > 0 /\ m < 30) => hm(rounded) = <<dy, h, 30>>
            /\ (m > 30 /\ h < 23) => hm(rounded) = <<dy, h + 1, 0>>
            /\ (m > 30 /\ h = 23) => hm(rounded) = <<dy + 1, 0, 0>>
            /\ m \in {0, 30} => hm(rounded) = <<dy, h, m>>
            /\ getSeconds(rounded) = 0
            /\ roundToNearestSlotBoundary(rounded) = rounded

\* a Date in the last half hour of a day has been rounded
C5_Witness ==
    /\ "rounded" \in done
    /\ getHours(date) = 23
    /\ getMinutes(date) > 30
    /\ getSeconds(date) # 0

\* C6: every slot returned for dateKey starts on the calendar date dateKey.
C6_SlotsSameDay ==
    SlotsReturned =>
        \A i \in DOMAIN thirtyMinSlots : format(thirtyMinSlots[i].start) = selectedDate

\* C7: a date-key is in the result of getDatesWithAvailability exactly when
\* some window's start falls on that date (the date format() gives the start
\* instant); the end of a window adds nothing and equal dates collapse.
C7_DateBucketing ==
    "dates" \in done =>
        \A d \in DateKeys \cup dates :
            d \in dates <=> \E i \in DOMAIN availability : LocalKeys[i] = d

\* three windows on two dates, one of them ending on a date of its own
C7_Witness ==
    /\ "dates" \in done
    /\ Len(availability) = 3
    /\ Cardinality(dates) = 2
    /\ \E i \in DOMAIN availability : format(newDate(availability[i].end)) \notin dates

\* C8: the date-key of a window, in getDatesWithAvailability and in the
\* filter of generateThirtyMinuteSlots, is the date written in its start
\* timestamp (the wall-clock date under the embedded offset), whatever the
\* environment's time zone is.
C8_KeyIsWrittenDate ==
    /\ "dates" \in done => dates = {WrittenKeys[i] : i \in DOMAIN availability}
    /\ (SlotsReturned /\ selectedDate # "") =>
           thirtyMinSlots = ConcatWhere(availability, WrittenKeys, selectedDate)

\* C9: the slots returned for dateKey are those of exactly the windows whose
\* start date (as format() gives it) is dateKey, all slots of an earlier
\* window of the list before those of a later one, not sorted by time.
C9_FilterAndOrder ==
    (SlotsReturned /\ selectedDate # "") =>
        thirtyMinSlots = ConcatWhere(availability, LocalKeys, selectedDate)

\* two windows of the date, the later one first, and one of another date
C9_Witness ==
    /\ SlotsReturned
    /\ Len(availability) = 3
    /\ \E i \in DOMAIN availability : LocalKeys[i] # selectedDate
    /\ \E i \in 1..(Len(thirtyMinSlots) - 1) :
           thirtyMinSlots[i + 1].start < thirtyMinSlots[i].start

\* C10: an empty dateKey gives no slots whatever the windows are; an empty
\* list of windows gives no slots and no dates.
C10_DegenerateInputs ==
    /\ (SlotsReturned /\ selectedDate = "") => thirtyMinSlots = <<>>
    /\ (SlotsReturned /\ availability = <<>>) => thirtyMinSlots = <<>>
    /\ ("dates" \in done /\ availability = <<>>) => dates = {}

\* both functions have returned for an empty dateKey and a list with windows
C10_Witness ==
    /\ done = {"slots", "dates"}
    /\ selectedDate = ""
    /\ Len(availability) >= 2
    /\ dates # {}
    /\ thirtyMinSlots = <<>>

(***************************************************************************)
(* Strings: a string is the sequence of its characters                     *)
(***************************************************************************)
DigitChar == <<"0", "1", "2", "3", "4", "5", "6", "7", "8", "9">>

IsDigit(c) == \E i \in 1..10 : DigitChar[i] = c
DigitValue(c) == (CHOOSE i \in 1..10 : DigitChar[i] = c) - 1

Pad2(n) == <<DigitChar[(n \div 10) + 1], DigitChar[(n % 10) + 1]>>
Pad3(n) == <<DigitChar[(n \div 100) + 1]>> \o Pad2(n % 100)

\* the characters put together into a string value
RECURSIVE Str(_)
Str(chars) == IF chars = <<>> THEN "" ELSE Head(chars) \o Str(Tail(chars))

\* String(n) of an integer of at most two digits
NumberToString(n) ==
    LET a == IF n < 0 THEN -n ELSE n
    IN  (IF n < 0 THEN "-" ELSE "")
            \o (IF a >= 10 THEN DigitChar[(a \div 10) + 1] ELSE "")
            \o DigitChar[(a % 10) + 1]

\* parseInt of an optional sign followed by digits
parseInt(chars) ==
    LET signed == chars # <<>> /\ Head(chars) \in {"+", "-"}
        digits == IF signed THEN Tail(chars) ELSE chars
        RECURSIVE Value(_, _)
        Value(ds, acc) ==
            IF ds = <<>> THEN acc ELSE Value(Tail(ds), 10 * acc + DigitValue(Head(ds)))
    IN  (IF signed /\ Head(chars) = "-" THEN -1 ELSE 1) * Value(digits, 0)

endsWith(chars, c) == chars # <<>> /\ chars[Len(chars)] = c

\* the characters of an offset suffix
SuffixChars(sfx) ==
    IF sfx.kind = "Z" THEN <<"Z">>
    ELSE IF sfx.kind = "none" THEN <<>>
    ELSE <<sfx.sign>> \o <<DigitChar[sfx.hh[1] + 1], DigitChar[sfx.hh[2] + 1]>>
             \o <<":">> \o <<DigitChar[sfx.mm[1] + 1], DigitChar[sfx.mm[2] + 1]>>

\* the ISO 8601 string that the record ts stands for
TimestampChars(ts) ==
    <<"2", "0", "2", "5", "-", "1", "2", "-">> \o Pad2(ts.day) \o <<"T">>
        \o Pad2(ts.hour) \o <<":">> \o Pad2(ts.minute) \o <<":">> \o Pad2(ts.second)
        \o (IF ts.ms = 0 THEN <<>> ELSE <<".">> \o Pad3(ts.ms))
        \o SuffixChars(ts.suffix)

(***************************************************************************)
(* src/lib/utils/timezone.ts                                               *)
(***************************************************************************)
NoMatch == <<>>

\* timestamp.match(/([+-]\d{2}):(\d{2})$/): <<match[0], match[1], match[2]>>
MatchSignedHours(s) ==
    LET n == Len(s)
    IN  IF /\ n >= 6
           /\ s[n - 5] \in {"+", "-"}
           /\ IsDigit(s[n - 4]) /\ IsDigit(s[n - 3])
           /\ s[n - 2] = ":"
           /\ IsDigit(s[n - 1]) /\ IsDigit(s[n])
        THEN <<SubSeq(s, n - 5, n), SubSeq(s, n - 5, n - 3), SubSeq(s, n - 1, n)>>
        ELSE NoMatch

\* timestamp.match(/([+-])(\d{2}):(\d{2})$/): <<match[0], ..., match[3]>>
MatchSignHours(s) ==
    LET n == Len(s)
    IN  IF /\ n >= 6
           /\ s[n - 5] \in {"+", "-"}
           /\ IsDigit(s[n - 4]) /\ IsDigit(s[n - 3])
           /\ s[n - 2] = ":"
           /\ IsDigit(s[n - 1]) /\ IsDigit(s[n])
        THEN <<SubSeq(s, n - 5, n), SubSeq(s, n - 5, n - 5), SubSeq(s, n - 4, n - 3),
               SubSeq(s, n - 1, n)>>
        ELSE NoMatch

\* the hour printed as it is written in the timestamp
parseOffsetFromTimestamp_padded(timestamp) ==
    IF endsWith(timestamp, "Z") THEN "UTC+0"
    ELSE LET match == MatchSignedHours(timestamp)
         IN  IF match # NoMatch
             THEN LET minutes == match[3]
                  IN  IF Str(minutes) = "00"
                      THEN "UTC" \o Str(match[2])
                      ELSE "UTC" \o Str(match[2]) \o ":" \o Str(minutes)
             ELSE "UTC+0"

\* the parsed hour printed in the branch of the non-zero minutes as well
parseOffsetFromTimestamp_unpadded(timestamp) ==
    IF endsWith(timestamp, "Z") THEN "UTC+0"
    ELSE LET match == MatchSignedHours(timestamp)
         IN  IF match # NoMatch
             THEN LET hours == parseInt(match[2])
                      minutes == match[3]
                  IN  IF Str(minutes) = "00"
                      THEN "UTC" \o (IF hours >= 0 THEN "+" ELSE "") \o NumberToString(hours)
                      ELSE "UTC" \o NumberToString(hours) \o ":" \o Str(minutes)
             ELSE "UTC+0"

\* no '+' put in front of a hour that is not negative
parseOffsetFromTimestamp_noPlus(timestamp) ==
    IF endsWith(timestamp, "Z") THEN "UTC+0"
    ELSE LET match == MatchSignedHours(timestamp)
         IN  IF match # NoMatch
             THEN LET hours == parseInt(match[2])
                      minutes == match[3]
                  IN  IF Str(minutes) = "00"
                      THEN "UTC" \o NumberToString(hours)
                      ELSE "UTC" \o Str(match[2]) \o ":" \o Str(minutes)
             ELSE "UTC+0"

parseOffsetFromTimestamp(timestamp) ==
    IF endsWith(timestamp, "Z") THEN "UTC+0"
    ELSE LET match == MatchSignedHours(timestamp)
         IN  IF match # NoMatch
             THEN LET hours == parseInt(match[2])
                      minutes == match[3]
                  IN  IF Str(minutes) = "00"
                      THEN "UTC" \o (IF hours >= 0 THEN "+" ELSE "") \o NumberToString(hours)
                      ELSE "UTC" \o Str(match[2]) \o ":" \o Str(minutes)
             ELSE "UTC+0"

\* the timestamps compared and not their offsets
shouldShowTimezoneSelector_wholeString(user, org) == user # org

shouldShowTimezoneSelector(user, org) ==
    LET userOff == parseOffsetFromTimestamp(user)
        orgOff == parseOffsetFromTimestamp(org)
    IN  userOff # orgOff

\* the sign of the offset kept
getTimezoneFromOffset_sameSign(timestamp, fallback) ==
    IF endsWith(timestamp, "Z") THEN "UTC"
    ELSE LET match == MatchSignHours(timestamp)
         IN  IF match = NoMatch THEN "UTC"
             ELSE LET sign == Str(match[2])
                      hours == parseInt(match[3])
                      minutes == match[4]
                  IN  IF Str(minutes) = "00"
                      THEN "Etc/GMT" \o sign \o NumberToString(hours)
                      ELSE IF fallback = Undefined THEN "UTC" ELSE fallback

getTimezoneFromOffset(timestamp, fallback) ==
    LET fallbackTz == IF fallback = Undefined THEN "UTC" ELSE fallback
    IN  IF endsWith(timestamp, "Z") THEN "UTC"
        ELSE LET match == MatchSignHours(timestamp)
             IN  IF match = NoMatch THEN "UTC"
                 ELSE LET sign == Str(match[2])
                          hours == parseInt(match[3])
                          minutes == match[4]
                          invertedSign == IF sign = "+" THEN "-" ELSE "+"
                      IN  IF Str(minutes) = "00"
                          THEN "Etc/GMT" \o invertedSign \o NumberToString(hours)
                          ELSE fallbackTz

\* inputs of the functions of timezone.ts
SuffixNone == [kind |-> "none", sign |-> "+", hh |-> <<0, 0>>, mm |-> <<0, 0>>]

OffsetSuffixes ==
    {[kind |-> "offset", sign |-> sg, hh |-> h, mm |-> m] :
        sg \in {"+", "-"}, h \in {<<0, 0>>, <<0, 3>>, <<0, 5>>, <<1, 0>>},
        m \in {<<0, 0>>, <<3, 0>>, <<4, 5>>}}

TimezoneSuffixes == {SuffixZ, SuffixNone} \cup OffsetSuffixes

Timestamps == {Ts(16, h, 0, 0, 0, sfx) : h \in {9, 14}, sfx \in TimezoneSuffixes}

Fallbacks == {Undefined, "Asia/Kolkata", ""}

InitTimezone ==
    /\ tz = 0
    /\ availability = <<>>
    /\ selectedDate = ""
    /\ date = 0
    /\ thirtyMinSlots = <<>>
    /\ dates = {}
    /\ rounded = 0
    /\ done = {}
    /\ userTimestamp \in Timestamps
    /\ orgTimestamp \in Timestamps
    /\ fallbackTimezone \in Fallbacks
    /\ userOffset = ""
    /\ show = FALSE
    /\ timezone = ""
    /\ LoadIdle
    /\ ProxyIdle
    /\ ButtonIdle
    /\ PageIdle

CallParseOffsetFromTimestamp ==
    /\ "parseOffset" \notin done
    /\ userOffset' = parseOffsetFromTimestamp(TimestampChars(userTimestamp))
    /\ done' = done \cup {"parseOffset"}
    /\ UNCHANGED <<sliceVars, loadVars, proxyVars, buttonVars, pageVars, userTimestamp, orgTimestamp, fallbackTimezone, show, timezone>>

CallShouldShowTimezoneSelector ==
    /\ "shouldShow" \notin done
    /\ show' = shouldShowTimezoneSelector(TimestampChars(userTimestamp),
                                          TimestampChars(orgTimestamp))
    /\ done' = done \cup {"shouldShow"}
    /\ UNCHANGED <<sliceVars, loadVars, proxyVars, buttonVars, pageVars, userTimestamp, orgTimestamp, fallbackTimezone, userOffset,
                   timezone>>

CallGetTimezoneFromOffset ==
    /\ "getTimezone" \notin done
    /\ timezone' = getTimezoneFromOffset(TimestampChars(orgTimestamp), fallbackTimezone)
    /\ done' = done \cup {"getTimezone"}
    /\ UNCHANGED <<sliceVars, loadVars, proxyVars, buttonVars, pageVars, userTimestamp, orgTimestamp, fallbackTimezone, userOffset, show>>

NextTimezone ==
    \/ CallParseOffsetFromTimestamp
    \/ CallShouldShowTimezoneSelector
    \/ CallGetTimezoneFromOffset

SpecTimezone == InitTimezone /\ [][NextTimezone]_vars

(***************************************************************************)
(* Properties of timezone.ts                                               *)
(***************************************************************************)
Offset(sg, h, m) == [kind |-> "offset", sign |-> sg, hh |-> h, mm |-> m]

\* a number of at most two digits, written without padding
Unpadded(n) == IF n >= 10 THEN TwoDigits(n) ELSE DigitChar[n + 1]

UserSuffix == userTimestamp.suffix
OrgSuffix == orgTimestamp.suffix
WholeHour(sfx) == sfx.kind = "offset" /\ sfx.mm = <<0, 0>>
FractionalHour(sfx) == sfx.kind = "offset" /\ sfx.mm # <<0, 0>>

\* C11: parseOffsetFromTimestamp gives 'UTC+0' for a Z suffix and for no
\* suffix; for a suffix of whole hours it gives 'UTC', an explicit sign and
\* the hour without padding: '-05:00' gives 'UTC-5', '+05:00' gives 'UTC+5',
\* '+00:00' and '-00:00' give 'UTC+0'.
C11_WholeHourOffsets ==
    "parseOffset" \in done =>
        /\ UserSuffix.kind \in {"Z", "none"} => userOffset = "UTC+0"
        /\ WholeHour(UserSuffix) =>
               userOffset = "UTC"
                   \o (IF Num(UserSuffix.hh) = 0 THEN "+" ELSE UserSuffix.sign)
                   \o Unpadded(Num(UserSuffix.hh))
        /\ UserSuffix = Offset("-", <<0, 5>>, <<0, 0>>) => userOffset = "UTC-5"
        /\ UserSuffix = Offset("+", <<0, 5>>, <<0, 0>>) => userOffset = "UTC+5"
        /\ UserSuffix = Offset("+", <<0, 0>>, <<0, 0>>) => userOffset = "UTC+0"
        /\ UserSuffix = Offset("-", <<0, 0>>, <<0, 0>>) => userOffset = "UTC+0"

\* the offset of a timestamp ending in -05:00 has been parsed
C11_Witness ==
    /\ "parseOffset" \in done
    /\ UserSuffix = Offset("-", <<0, 5>>, <<0, 0>>)
    /\ userOffset = "UTC-5"

C13_UnpaddedDisplayForm ==
    "parseOffset" \in done =>
        /\ UserSuffix.kind \in {"Z", "none"} => userOffset = "UTC+0"
        /\ UserSuffix.kind = "offset" =>
               userOffset = "UTC"
                   \o (IF Num(UserSuffix.hh) = 0 /\ Num(UserSuffix.mm) = 0
                       THEN "+" ELSE UserSuffix.sign)
                   \o Unpadded(Num(UserSuffix.hh))
                   \o (IF UserSuffix.mm = <<0, 0>> THEN ""
                       ELSE ":" \o TwoDigits(Num(UserSuffix.mm)))
        /\ UserSuffix = Offset("+", <<0, 5>>, <<3, 0>>) => userOffset = "UTC+5:30"

\* C14: shouldShowTimezoneSelector is true exactly when the two results of
\* parseOffsetFromTimestamp are different strings, whatever the instants
\* are: equal instants with different offsets give true, different instants
\* with the same offset give false.
C14_SelectorComparesOffsetStrings ==
    "shouldShow" \in done =>
        /\ show <=> (parseOffsetFromTimestamp(TimestampChars(userTimestamp))
                        # parseOffsetFromTimestamp(TimestampChars(orgTimestamp)))
        /\ ( /\ userTimestamp = Ts(16, 9, 0, 0, 0, Offset("-", <<0, 5>>, <<0, 0>>))
             /\ orgTimestamp = Ts(16, 14, 0, 0, 0, SuffixZ) ) => show
        /\ (UserSuffix = OrgSuffix /\ userTimestamp # orgTimestamp) => ~show

\* the selector is shown for two timestamps of one instant
C14_Witness ==
    /\ "shouldShow" \in done
    /\ show
    /\ newDate(userTimestamp) = newDate(orgTimestamp)
    /\ "parseOffset" \in done
    /\ userOffset = "UTC-5"

\* C15: for timestamps ending in Z or in an offset the selector is shown
\* exactly when the numeric offsets differ; Z, +00:00 and -00:00 are equal.
C15_SelectorComparesNumericOffsets ==
    ("shouldShow" \in done /\ UserSuffix.kind # "none" /\ OrgSuffix.kind # "none") =>
        (show <=> SuffixOffset(UserSuffix) # SuffixOffset(OrgSuffix))

\* the selector is hidden for Z against -00:00
C15_Witness ==
    /\ "shouldShow" \in done
    /\ ~show
    /\ UserSuffix = SuffixZ
    /\ OrgSuffix = Offset("-", <<0, 0>>, <<0, 0>>)

\* C16: getTimezoneFromOffset gives 'UTC' for a Z suffix and for no suffix,
\* 'Etc/GMT' with the opposite sign and the unpadded hour for whole hours
\* ('-05:00' gives 'Etc/GMT+5', '+05:00' gives 'Etc/GMT-5'), and the fallback
\* argument, 'UTC' when it is not passed, for non-zero minutes.
C16_SyntheticTimezone ==
    "getTimezone" \in done =>
        /\ OrgSuffix.kind \in {"Z", "none"} => timezone = "UTC"
        /\ WholeHour(OrgSuffix) =>
               timezone = "Etc/GMT" \o (IF OrgSuffix.sign = "-" THEN "+" ELSE "-")
                              \o Unpadded(Num(OrgSuffix.hh))
        /\ OrgSuffix = Offset("-", <<0, 5>>, <<0, 0>>) => timezone = "Etc/GMT+5"
        /\ OrgSuffix = Offset("+", <<0, 5>>, <<0, 0>>) => timezone = "Etc/GMT-5"
        /\ FractionalHour(OrgSuffix) =>
               timezone = (IF fallbackTimezone = Undefined THEN "UTC" ELSE fallbackTimezone)

\* a fallback was passed and the offset is of whole hours
C16_Witness ==
    /\ "getTimezone" \in done
    /\ fallbackTimezone = "Asia/Kolkata"
    /\ OrgSuffix = Offset("-", <<0, 5>>, <<0, 0>>)
    /\ timezone = "Etc/GMT+5"

(***************************************************************************)
(* src/routes/bookings/+page.ts: load                                      *)
(* A local date is <<year, month, day>>; parseISO of a date-only string,   *)
(* startOfToday() and format() all work on local dates.                    *)
(***************************************************************************)
InvalidDate == <<0, 0, 0>>

Pad4(n) == Pad2(n \div 100) \o Pad2(n % 100)

\* the string yyyy-MM-dd made of three numbers, real date or not
DateChars(y, m, d) == Pad4(y) \o <<"-">> \o Pad2(m) \o <<"-">> \o Pad2(d)

IsLeapYear(y) == (y % 4 = 0 /\ y % 100 # 0) \/ y % 400 = 0

DaysInMonth(y, m) ==
    IF m = 2 THEN (IF IsLeapYear(y) THEN 29 ELSE 28)
    ELSE IF m \in {4, 6, 9, 11} THEN 30 ELSE 31

\* DATE_PATTERN.test(dateStr): /^\d{4}-\d{2}-\d{2}$/
DATE_PATTERN(chars) ==
    /\ Len(chars) = 10
    /\ \A i \in {1, 2, 3, 4, 6, 7, 9, 10} : IsDigit(chars[i])
    /\ chars[5] = "-" /\ chars[8] = "-"

\* parseISO of a string that has the form yyyy-MM-dd
parseISO(chars) ==
    LET y == parseInt(SubSeq(chars, 1, 4))
        m == parseInt(SubSeq(chars, 6, 7))
        d == parseInt(SubSeq(chars, 9, 10))
    IN  IF m >= 1 /\ m <= 12 /\ d >= 1 /\ d <= DaysInMonth(y, m)
        THEN <<y, m, d>> ELSE InvalidDate

isValid(dt) == dt # InvalidDate

\* getTime() of a local midnight, in days on a scale that keeps the order
DayTime(dt) == (dt[1] * 12 + (dt[2] - 1)) * 31 + (dt[3] - 1)

isAfter(d, dateToCompare) == d > dateToCompare

isValidDateString(dateStr) ==
    IF ~DATE_PATTERN(dateStr) THEN FALSE
    ELSE isValid(parseISO(dateStr))

getDefaultStartDate == DateChars(today[1], today[2], today[3])

getDefaultEndDate == DateChars(today[1], today[2], DaysInMonth(today[1], today[2]))

startOfToday == today

\* a string or null taken as a condition
Truthy(param) == param.present /\ param.value # <<>>

\* no test of a start in the past
loadDecision_noPastCheck(startParam, endParam) ==
    LET defaultStart == getDefaultStartDate
        defaultEnd == getDefaultEndDate
        startIsValid == IF Truthy(startParam) THEN isValidDateString(startParam.value) ELSE FALSE
        endIsValid == IF Truthy(endParam) THEN isValidDateString(endParam.value) ELSE FALSE
        both == startIsValid /\ endIsValid
        inverted == both /\ isAfter(DayTime(parseISO(startParam.value)),
                                     DayTime(parseISO(endParam.value)))
        needsRedirect == IF both THEN inverted ELSE TRUE
    IN  [redirect |-> needsRedirect /\ (Truthy(startParam) \/ Truthy(endParam)),
         startDate |-> IF startIsValid /\ ~inverted THEN startParam.value ELSE defaultStart,
         endDate |-> IF endIsValid /\ ~inverted THEN endParam.value ELSE defaultEnd]

\* lines 50-93 of load: the dates it settles on and whether it redirects
loadDecision(startParam, endParam) ==
    LET defaultStart == getDefaultStartDate
        defaultEnd == getDefaultEndDate
        startIsValid == IF Truthy(startParam) THEN isValidDateString(startParam.value) ELSE FALSE
        endIsValid == IF Truthy(endParam) THEN isValidDateString(endParam.value) ELSE FALSE
        both == startIsValid /\ endIsValid
        past == both /\ isBefore(DayTime(parseISO(startParam.value)), DayTime(startOfToday))
        inverted == both /\ ~past /\ isAfter(DayTime(parseISO(startParam.value)),
                                              DayTime(parseISO(endParam.value)))
        needsRedirect == IF both THEN past \/ inverted ELSE TRUE
    IN  [redirect |-> needsRedirect /\ (Truthy(startParam) \/ Truthy(endParam)),
         startDate |-> IF startIsValid /\ ~past /\ ~inverted
                       THEN startParam.value ELSE defaultStart,
         endDate |-> IF endIsValid /\ ~past /\ ~inverted
                     THEN endParam.value ELSE defaultEnd]

\* the three blocks of the page: error panel, empty panel, calendar
Panels(d) ==
    LET hasAvailability == Len(d.availability) > 0
        hasError == d.error # Undefined /\ d.error # ""
    IN  (IF hasError THEN {"error"} ELSE {})
            \cup (IF ~hasAvailability /\ ~hasError THEN {"empty"} ELSE {})
            \cup (IF hasAvailability THEN {"calendar"} ELSE {})

\* inputs of load
Todays == {<<2025, 12, 16>>, <<2025, 12, 31>>, <<2024, 2, 10>>}

QueryParams ==
    { Absent,
      Param(<<>>),
      Param(<<"t", "o", "d", "a", "y">>),
      Param(<<"2", "0", "2", "5", "-", "1", "-", "5">>),
      Param(DateChars(2025, 2, 30)),
      Param(DateChars(2025, 13, 1)),
      Param(DateChars(2024, 2, 29)),
      Param(DateChars(2025, 12, 10)),
      Param(DateChars(2025, 12, 16)),
      Param(DateChars(2025, 12, 20)),
      Param(DateChars(2026, 1, 15)) }

StatusTexts == {"", "Internal Server Error"}

Responses ==
    { <<>>,
      <<[start |-> Ts(16, 9, 0, 0, 0, SuffixZ), end |-> Ts(16, 10, 15, 0, 0, SuffixZ)]>>,
      <<[start |-> Ts(17, 9, 0, 0, 0, SuffixMinus5), end |-> Ts(17, 10, 0, 0, 0, SuffixMinus5)]>> }

InitLoad ==
    /\ tz = 0
    /\ availability = <<>>
    /\ selectedDate = ""
    /\ date = 0
    /\ thirtyMinSlots = <<>>
    /\ dates = {}
    /\ rounded = 0
    /\ done = {}
    /\ TimezoneIdle
    /\ ProxyIdle
    /\ ButtonIdle
    /\ PageIdle
    /\ today \in Todays
    /\ url \in [start : QueryParams, end : QueryParams]
    /\ loadPc = "called"
    /\ apiRequest = [start |-> <<>>, end |-> <<>>]
    /\ fetchOutcome = "none"
    /\ data = NoData

\* load up to the redirect or to the call of fetch
load ==
    /\ loadPc = "called"
    /\ LET dec == loadDecision(url.start, url.end)
       IN  IF dec.redirect
           THEN /\ loadPc' = "redirected"
                /\ url' = [start |-> Param(dec.startDate), end |-> Param(dec.endDate)]
                /\ UNCHANGED apiRequest
           ELSE /\ loadPc' = "fetching"
                /\ apiRequest' = [start |-> dec.startDate, end |-> dec.endDate]
                /\ UNCHANGED url
    /\ UNCHANGED <<today, fetchOutcome, data>>
    /\ UNCHANGED <<sliceVars, done, timezoneVars, proxyVars, buttonVars, pageVars>>

\* the redirect is followed: load runs for /bookings?start=S&end=E
FollowRedirect ==
    /\ loadPc = "redirected"
    /\ loadPc' = "called"
    /\ UNCHANGED <<today, url, apiRequest, fetchOutcome, data>>
    /\ UNCHANGED <<sliceVars, done, timezoneVars, proxyVars, buttonVars, pageVars>>

\* the response is OK and its body is a list of windows
FetchOk ==
    /\ loadPc = "fetching"
    /\ \E av \in Responses :
           data' = [availability |-> av, startDate |-> apiRequest.start,
                    endDate |-> apiRequest.end, error |-> Undefined]
    /\ fetchOutcome' = "ok"
    /\ loadPc' = "returned"
    /\ UNCHANGED <<today, url, apiRequest>>
    /\ UNCHANGED <<sliceVars, done, timezoneVars, proxyVars, buttonVars, pageVars>>

\* the response is not OK
FetchNotOk ==
    /\ loadPc = "fetching"
    /\ \E statusText \in StatusTexts :
           data' = [availability |-> <<>>, startDate |-> apiRequest.start,
                    endDate |-> apiRequest.end,
                    error |-> "Failed to load availability: " \o statusText]
    /\ fetchOutcome' = "notOk"
    /\ loadPc' = "returned"
    /\ UNCHANGED <<today, url, apiRequest>>
    /\ UNCHANGED <<sliceVars, done, timezoneVars, proxyVars, buttonVars, pageVars>>

\* fetch rejects (no connection): nothing in load catches it
FetchRejects ==
    /\ loadPc = "fetching"
    /\ fetchOutcome' = "rejected"
    /\ loadPc' = "thrown"
    /\ UNCHANGED <<today, url, apiRequest, data>>
    /\ UNCHANGED <<sliceVars, done, timezoneVars, proxyVars, buttonVars, pageVars>>

\* the response is OK and response.json() rejects
FetchOkBadJson ==
    /\ loadPc = "fetching"
    /\ fetchOutcome' = "badJson"
    /\ loadPc' = "thrown"
    /\ UNCHANGED <<today, url, apiRequest, data>>
    /\ UNCHANGED <<sliceVars, done, timezoneVars, proxyVars, buttonVars, pageVars>>

NextLoad ==
    \/ load
    \/ FollowRedirect
    \/ FetchOk
    \/ FetchNotOk
    \/ FetchRejects
    \/ FetchOkBadJson

SpecLoad == InitLoad /\ [][NextLoad]_vars

(***************************************************************************)
(* Properties of load                                                      *)
(***************************************************************************)
\* the real dates of the years 2024 to 2026, written yyyy-MM-dd
RealDateStrings ==
    {DateChars(y, m, d) : y \in 2024..2026, m \in 1..12, d \in 1..31}
        \ ( {DateChars(y, m, 31) : y \in 2024..2026, m \in {2, 4, 6, 9, 11}}
            \cup {DateChars(y, 2, 30) : y \in 2024..2026}
            \cup {DateChars(y, 2, 29) : y \in {2025, 2026}} )

TodayString == DateChars(today[1], today[2], today[3])

\* the order of two strings yyyy-MM-dd, character by character
RECURSIVE CharsLeq(_, _)
CharsLeq(a, b) ==
    IF a = <<>> THEN TRUE
    ELSE IF Head(a) = Head(b) THEN CharsLeq(Tail(a), Tail(b))
    ELSE Head(a) # "-" /\ Head(b) # "-" /\ DigitValue(Head(a)) < DigitValue(Head(b))

Fetching == loadPc \in {"fetching", "returned", "thrown"}

\* C17: whenever load goes on to fetch, the start and end it sends are real
\* dates yyyy-MM-dd with today <= start <= end, whatever the parameters were.
C17_FetchedRangeIsValid ==
    Fetching =>
        /\ apiRequest.start \in RealDateStrings
        /\ apiRequest.end \in RealDateStrings
        /\ CharsLeq(TodayString, apiRequest.start)
        /\ CharsLeq(apiRequest.start, apiRequest.end)

\* a range given in the URL was accepted and sent
C17_Witness ==
    /\ loadPc = "fetching"
    /\ apiRequest.start # TodayString
    /\ apiRequest.start = url.start.value
    /\ apiRequest.end = url.end.value

\* C18: every redirect target /bookings?start=S&end=E passes load's own
\* validation, so that loading the target does not redirect again.
C18_RedirectTargetIsValid ==
    loadPc = "redirected" =>
        /\ url.start.value \in RealDateStrings
        /\ url.end.value \in RealDateStrings
        /\ CharsLeq(TodayString, url.start.value)
        /\ CharsLeq(url.start.value, url.end.value)
        /\ ~loadDecision(url.start, url.end).redirect

\* C19: a failed availability fetch does not throw: load returns an empty
\* list with an error message; every load result shows exactly one of the
\* error panel, the empty panel and the calendar.
C19_FailedFetchIsReported ==
    /\ fetchOutcome \in {"notOk", "rejected"} =>
           /\ loadPc = "returned"
           /\ data.availability = <<>>
           /\ data.error # Undefined /\ data.error # ""
    /\ loadPc = "returned" =>
           /\ Cardinality(Panels(data)) = 1
           /\ (data.error # Undefined /\ data.error # "") => Panels(data) = {"error"}
           /\ (data.error = Undefined /\ data.availability = <<>>) => Panels(data) = {"empty"}
           /\ data.availability # <<>> => Panels(data) = {"calendar"}

\* what C19 says of the fetches that end with a response
C19_ResponsesAreRendered ==
    /\ fetchOutcome = "notOk" =>
           /\ loadPc = "returned"
           /\ data.availability = <<>>
           /\ Panels(data) = {"error"}
    /\ loadPc = "returned" => Cardinality(Panels(data)) = 1

(***************************************************************************)
(* routes/api/bookings: the POST proxy                                     *)
(***************************************************************************)
MaxAttendees == 2

\* !v of a string, undefined or null
Falsy(v) == v \in {Undefined, Null, ""}

\* the handler up to the fetch, with only the first attendee's email tested
POSTDecision_firstOnly(req) ==
    IF req.json \in {"unparsable", "null"} THEN "throw"
    ELSE IF \/ Falsy(req.start)
            \/ Falsy(req.end)
            \/ req.attendees.kind \in {"missing", "null"}
            \/ (req.attendees.kind = "array" /\ req.attendees.list = <<>>)
         THEN "missing"
    ELSE IF req.attendees.kind = "object" THEN "throw"
    ELSE IF req.attendees.list[1].kind = "null" THEN "throw"
    ELSE IF Falsy(req.attendees.list[1].email) THEN "email"
    ELSE "forward"

\* the handler up to the fetch: what the body leads to.  request.json()
\* throws on a body that is no JSON; data.start throws on a null body; the
\* for-of throws on attendees that are no iterable, attendee.email on a null
\* attendee; the loop returns at the first attendee without an email.
POSTDecision(req) ==
    IF req.json \in {"unparsable", "null"} THEN "throw"
    ELSE IF \/ Falsy(req.start)
            \/ Falsy(req.end)
            \/ req.attendees.kind \in {"missing", "null"}
            \/ (req.attendees.kind = "array" /\ req.attendees.list = <<>>)
         THEN "missing"
    ELSE IF req.attendees.kind = "object" THEN "throw"
    ELSE LET list == req.attendees.list
             stops == {i \in 1..Len(list) :
                           list[i].kind = "null" \/ Falsy(list[i].email)}
             first == CHOOSE i \in stops : \A j \in stops : i <= j
         IN  IF stops = {} THEN "forward"
             ELSE IF list[first].kind = "null" THEN "throw"
             ELSE "email"

\* ---- inputs ----
Emails == {Undefined, Null, "", "ada@acme.io"}

Attendees ==
    {[kind |-> "object", email |-> e] : e \in Emails}
        \cup {[kind |-> "null", email |-> Undefined]}

AttendeeLists ==
    UNION {[1..n -> Attendees] : n \in 0..MaxAttendees}

AttendeesFields ==
    {[kind |-> "array", list |-> l] : l \in AttendeeLists}
        \cup {[kind |-> k, list |-> <<>>] : k \in {"missing", "null", "object"}}

TimestampFields == {Undefined, Null, "", "2025-12-16T09:00:00Z"}

Bodies ==
    {[json |-> "object", start |-> s, end |-> e, attendees |-> a] :
        s \in TimestampFields, e \in TimestampFields, a \in AttendeesFields}
        \cup {[NoBody EXCEPT !.json = k] : k \in {"unparsable", "null"}}

NotOkStatuses == {400, 404, 409, 500, 503}

InitProxy ==
    /\ tz = 0
    /\ availability = <<>>
    /\ selectedDate = ""
    /\ thirtyMinSlots = <<>>
    /\ dates = {}
    /\ date = 0
    /\ rounded = 0
    /\ done = {}
    /\ TimezoneIdle
    /\ LoadIdle
    /\ ButtonIdle
    /\ PageIdle
    /\ body \in Bodies
    /\ postPc = "received"
    /\ forwards = 0
    /\ upstream = [outcome |-> "none", status |-> 0]
    /\ reply = NoReply

\* ---- actions ----
\* the handler from request.json() to the call of fetch
POST ==
    /\ postPc = "received"
    /\ LET decision == POSTDecision(body) IN
           IF decision = "forward"
           THEN /\ forwards' = forwards + 1
                /\ postPc' = "forwarded"
                /\ reply' = reply
           ELSE /\ forwards' = forwards
                /\ postPc' = "responded"
                /\ reply' = IF decision = "throw"
                            THEN [status |-> 500, success |-> FALSE, from |-> "catch"]
                            ELSE [status |-> 400, success |-> FALSE, from |-> decision]
    /\ UNCHANGED <<body, upstream>>
    /\ UNCHANGED <<sliceVars, done, timezoneVars, loadVars, buttonVars, pageVars>>

\* the external API answers OK: its result is passed on
UpstreamOk ==
    /\ postPc = "forwarded"
    /\ \E st \in {200, 201}, success \in BOOLEAN :
           /\ upstream' = [outcome |-> "ok", status |-> st]
           /\ reply' = [status |-> 200, success |-> success, from |-> "result"]
    /\ postPc' = "responded"
    /\ UNCHANGED <<body, forwards>>
    /\ UNCHANGED <<sliceVars, done, timezoneVars, loadVars, buttonVars, pageVars>>

\* the external API answers with a status that is not OK
UpstreamNotOk ==
    /\ postPc = "forwarded"
    /\ \E st \in NotOkStatuses :
           /\ upstream' = [outcome |-> "notOk", status |-> st]
           /\ reply' = [status |-> st, success |-> FALSE, from |-> "relay"]
    /\ postPc' = "responded"
    /\ UNCHANGED <<body, forwards>>
    /\ UNCHANGED <<sliceVars, done, timezoneVars, loadVars, buttonVars, pageVars>>

\* fetch rejects, response.json() rejects or response.text() rejects: the
\* catch block answers
UpstreamThrows ==
    /\ postPc = "forwarded"
    /\ \/ upstream' = [outcome |-> "rejected", status |-> 0]
       \/ \E st \in {200, 201} : upstream' = [outcome |-> "badJson", status |-> st]
       \/ \E st \in NotOkStatuses : upstream' = [outcome |-> "badText", status |-> st]
    /\ reply' = [status |-> 500, success |-> FALSE, from |-> "catch"]
    /\ postPc' = "responded"
    /\ UNCHANGED <<body, forwards>>
    /\ UNCHANGED <<sliceVars, done, timezoneVars, loadVars, buttonVars, pageVars>>

NextProxy ==
    \/ POST
    \/ UpstreamOk
    \/ UpstreamNotOk
    \/ UpstreamThrows

SpecProxy == InitProxy /\ [][NextProxy]_vars

(***************************************************************************)
(* Properties of the POST proxy                                            *)
(***************************************************************************)
\* a body that is a JSON object whose attendees, when given, are objects
IsRequestObject(req) ==
    /\ req.json = "object"
    /\ req.attendees.kind # "object"
    /\ \A i \in 1..Len(req.attendees.list) : req.attendees.list[i].kind = "object"

\* start, end or attendees lacking, no attendee, or an attendee without email
LacksRequiredField(req) ==
    \/ Falsy(req.start)
    \/ Falsy(req.end)
    \/ req.attendees.kind \in {"missing", "null"}
    \/ req.attendees.list = <<>>
    \/ \E i \in 1..Len(req.attendees.list) : Falsy(req.attendees.list[i].email)

\* the handler threw: the body was no JSON object of objects, or the call of
\* the external API or the reading of its response failed
Threw ==
    \/ ~IsRequestObject(body) /\ POSTDecision(body) = "throw"
    \/ upstream.outcome \in {"rejected", "badJson", "badText"}

\* C20: a request object lacking start, end or attendees, with no attendee
\* or with an attendee without email is answered 400 and the external API is
\* not called (no body that is not a complete request is ever forwarded); an
\* upstream answer that is not OK is relayed with its status and success
\* false; a thrown error gives status 500.
C20_InvalidRequestNotForwarded ==
    /\ (~IsRequestObject(body) \/ LacksRequiredField(body)) => forwards = 0
    /\ (postPc = "responded" /\ IsRequestObject(body) /\ LacksRequiredField(body)) =>
           reply.status = 400 /\ ~reply.success
    /\ (postPc = "responded" /\ upstream.outcome = "notOk") =>
           reply.status = upstream.status /\ ~reply.success
    /\ (postPc = "responded" /\ Threw) => reply.status = 500 /\ ~reply.success

\* a request whose second attendee has no email was answered 400
C20_Witness ==
    /\ postPc = "responded"
    /\ body.json = "object"
    /\ Len(body.attendees.list) = 2
    /\ ~Falsy(body.attendees.list[1].email)
    /\ body.attendees.list[2].kind = "object"
    /\ Falsy(body.attendees.list[2].email)
    /\ reply.status = 400
    /\ forwards = 0

(***************************************************************************)
(* components/calendar/CalendarDayButton.svelte                            *)
(***************************************************************************)
MaxClicks == 2

BookedClasses ==
    "bg-green-50 text-green-600 border-green-200 border cursor-default font-semibold"
SelectedClasses == "bg-primary text-primary-foreground hover:bg-primary/90"
AvailableClasses ==
    "bg-accent/30 border-accent hover:bg-accent hover:border-primary cursor-pointer border"
MutedClasses == "text-muted-foreground/40 cursor-not-allowed"

\* isBooked = false in the destructuring of $props(): the default of a prop
\* that is not passed
isBooked(p) == IF p.isBooked.passed THEN p.isBooked.value ELSE FALSE

\* the selected style tested before the booked style
stateClasses_selectedFirst(p) ==
    IF p.isSelected THEN SelectedClasses
    ELSE IF isBooked(p) THEN BookedClasses
    ELSE IF p.hasAvailability /\ ~p.isPast THEN AvailableClasses
    ELSE MutedClasses

stateClasses(p) ==
    IF isBooked(p) THEN BookedClasses
    ELSE IF p.isSelected THEN SelectedClasses
    ELSE IF p.hasAvailability /\ ~p.isPast THEN AvailableClasses
    ELSE MutedClasses

\* the disabled attribute of the button
disabled(p) == ~p.hasAvailability \/ p.isPast \/ isBooked(p)

\* handleClick: whether onSelect(dateStr) is called
callsOnSelect(p) == p.hasAvailability /\ ~p.isPast /\ ~isBooked(p)

\* ---- inputs ----
ButtonProps ==
    [dateStr : {"2025-12-01", "2025-12-18"},
     isSelected : BOOLEAN,
     hasAvailability : BOOLEAN,
     isPast : BOOLEAN,
     isToday : BOOLEAN,
     isBooked : {Passed(TRUE), Passed(FALSE), NotPassed},
     variant : {"full", "condensed"}]

InitButton ==
    /\ tz = 0
    /\ availability = <<>>
    /\ selectedDate = ""
    /\ date = 0
    /\ thirtyMinSlots = <<>>
    /\ dates = {}
    /\ rounded = 0
    /\ done = {}
    /\ TimezoneIdle
    /\ LoadIdle
    /\ ProxyIdle
    /\ PageIdle
    /\ props \in ButtonProps
    /\ clicks = 0
    /\ onSelectCalls = <<>>

\* ---- actions ----
\* a click on the button; a disabled button dispatches no click event
handleClick ==
    /\ clicks < MaxClicks
    /\ clicks' = clicks + 1
    /\ onSelectCalls' =
           IF ~disabled(props) /\ callsOnSelect(props)
           THEN Append(onSelectCalls, props.dateStr)
           ELSE onSelectCalls
    /\ UNCHANGED props
    /\ UNCHANGED <<sliceVars, done, timezoneVars, loadVars, proxyVars, pageVars>>

NextButton ==
    \/ handleClick

SpecButton == InitButton /\ [][NextButton]_vars

(***************************************************************************)
(* Properties of CalendarDayButton                                         *)
(***************************************************************************)
\* C21: the button is disabled exactly when the date has no availability, is
\* in the past or is booked; onSelect is called by a click only when
\* hasAvailability is true and isPast and isBooked are false, and then by
\* every click and with the button's date; with isBooked and isSelected
\* both set the button has the booked style and not the selected one.
C21_DayButton ==
    LET selectable ==
            props.hasAvailability = TRUE /\ props.isPast = FALSE /\ props.isBooked # Passed(TRUE)
    IN  /\ disabled(props) <=> ~selectable
        /\ onSelectCalls # <<>> => selectable
        /\ selectable => onSelectCalls = [i \in 1..clicks |-> props.dateStr]
        /\ (props.isBooked = Passed(TRUE) /\ props.isSelected) =>
               stateClasses(props) = BookedClasses /\ stateClasses(props) # SelectedClasses

\* a booked and selected date with availability was clicked
C21_Witness ==
    /\ props.isBooked = Passed(TRUE)
    /\ props.isSelected
    /\ props.hasAvailability
    /\ ~props.isPast
    /\ clicks = MaxClicks
    /\ onSelectCalls = <<>>

(***************************************************************************)
(* routes/bookings/+page.svelte with Calendar.svelte and BookingDrawer     *)
(***************************************************************************)
MaxSubmissions == 2

Whitespace == {" "}

\* String.prototype.trim
RECURSIVE trimStart(_)
trimStart(chars) ==
    IF chars # <<>> /\ Head(chars) \in Whitespace THEN trimStart(Tail(chars)) ELSE chars

RECURSIVE trimEnd(_)
trimEnd(chars) ==
    IF chars # <<>> /\ chars[Len(chars)] \in Whitespace
    THEN trimEnd(SubSeq(chars, 1, Len(chars) - 1))
    ELSE chars

trim(chars) == trimEnd(trimStart(chars))

\* /^[^\s@]+@[^\s@]+\.[^\s@]+$/.test(emailValue)
validateEmail(emailValue) ==
    LET plain(from, to) ==
            /\ from <= to
            /\ \A k \in from..to : emailValue[k] \notin Whitespace \cup {"@"}
    IN  \E at \in 1..Len(emailValue), dot \in 1..Len(emailValue) :
            /\ emailValue[at] = "@"
            /\ emailValue[dot] = "."
            /\ plain(1, at - 1)
            /\ plain(at + 1, dot - 1)
            /\ plain(dot + 1, Len(emailValue))

isFormValid == trim(name) # <<>> /\ trim(email) # <<>> /\ emailError = ""

startOfMonth(dt) == <<dt[1], dt[2], 1>>

\* the month shown, from the start parameter of the page's URL
currentMonth ==
    IF Truthy(url.start) THEN startOfMonth(parseISO(url.start.value))
    ELSE startOfMonth(today)

\* Calendar.svelte: the props it gives to the button of a day of the month
\* shown; isBooked is not among them
CalendarDayProps(day) ==
    LET dayDate == <<currentMonth[1], currentMonth[2], day>>
        dateStr == Str(DateChars(dayDate[1], dayDate[2], dayDate[3]))
    IN  [dateStr |-> dateStr,
         isSelected |-> selectedDate = dateStr,
         hasAvailability |-> dateStr \in getDatesWithAvailability(data.availability),
         isPast |-> DayTime(dayDate) < DayTime(today),
         isToday |-> dayDate = today,
         isBooked |-> NotPassed,
         variant |-> "full"]

\* the slots listed for the selected date
selectedDateSlots ==
    generateThirtyMinuteSlots(data.availability,
                              IF selectedDate = Null THEN "" ELSE selectedDate)

\* the confirm button of the drawer is shown and is not disabled
ConfirmEnabled ==
    /\ drawerOpen
    /\ selectedSlot # NoSlot
    /\ ~isConfirmed
    /\ ~(isSubmitting \/ ~isFormValid)

\* ---- inputs ----
CalendarDays == 14..19

Names == {<<>>, <<" ">>, <<"A", "d", "a">>}

EmailValues ==
    { <<>>,
      <<"a", "d", "a">>,
      <<"a", "@", "b", " ", ".", "i", "o">>,
      <<"a", "@", "b", ".", "i", "o">> }

BookingWindows ==
    << [start |-> Ts(16, 9, 0, 0, 0, SuffixZ), end |-> Ts(16, 10, 15, 0, 0, SuffixZ)],
       [start |-> Ts(17, 23, 30, 0, 0, SuffixZ), end |-> Ts(18, 0, 30, 0, 0, SuffixZ)] >>

\* the page as it is shown after load has returned the windows of the month
InitBooking ==
    /\ tz = 0
    /\ availability = <<>>
    /\ selectedDate = Null
    /\ date = 0
    /\ thirtyMinSlots = <<>>
    /\ dates = {}
    /\ rounded = 0
    /\ done = {}
    /\ TimezoneIdle
    /\ ProxyIdle
    /\ ButtonIdle
    /\ today = <<2025, 12, 16>>
    /\ url = [start |-> Absent, end |-> Absent]
    /\ loadPc = "returned"
    /\ apiRequest = [start |-> DateChars(2025, 12, 16), end |-> DateChars(2025, 12, 31)]
    /\ fetchOutcome = "ok"
    /\ data = [availability |-> BookingWindows, startDate |-> DateChars(2025, 12, 16),
               endDate |-> DateChars(2025, 12, 31), error |-> Undefined]
    /\ drawerOpen = FALSE
    /\ selectedSlot = NoSlot
    /\ confirmedMeeting = NoMeeting
    /\ DrawerReset
    /\ inFlight = <<>>
    /\ settled = <<>>
    /\ detectedTimezone = "Europe/London"
    /\ selectedTimezone = "Europe/London"

\* what the page's handlers leave alone
slicerVars == <<tz, availability, thirtyMinSlots, dates, date, rounded>>
offPageVars == <<slicerVars, done, timezoneVars, loadVars, proxyVars, buttonVars>>
zoneVars == <<detectedTimezone, selectedTimezone>>

\* ---- actions ----
\* a click on the button of a day in the calendar: the button's handleClick,
\* Calendar's selectDate, the page's handleDateSelect
handleDateSelect ==
    /\ loadPc = "returned"
    /\ ~drawerOpen
    /\ "calendar" \in Panels(data)
    /\ \E day \in CalendarDays :
           LET p == CalendarDayProps(day)
           IN  /\ ~disabled(p)
               /\ callsOnSelect(p)
               /\ p.hasAvailability /\ ~p.isPast
               /\ selectedDate' = p.dateStr
    /\ UNCHANGED <<offPageVars, pageVars>>

\* a click on a slot of the selected date
handleSlotClick ==
    /\ loadPc = "returned"
    /\ ~drawerOpen
    /\ "calendar" \in Panels(data)
    /\ selectedDate \notin {Null, ""}
    /\ \E i \in 1..Len(selectedDateSlots) : selectedSlot' = selectedDateSlots[i]
    /\ drawerOpen' = TRUE
    /\ UNCHANGED <<offPageVars, selectedDate, confirmedMeeting, drawerVars, inFlight,
                   settled, zoneVars>>

\* typing in the name field (bind:value)
TypeName ==
    /\ drawerOpen /\ selectedSlot # NoSlot /\ ~isConfirmed
    /\ \E value \in Names : name' = value
    /\ UNCHANGED <<offPageVars, selectedDate, drawerOpen, selectedSlot, confirmedMeeting,
                   email, emailError, isSubmitting, isConfirmed, inFlight, settled, zoneVars>>

\* typing in the email field
handleEmailChange ==
    /\ drawerOpen /\ selectedSlot # NoSlot /\ ~isConfirmed
    /\ \E value \in EmailValues :
           /\ email' = value
           /\ emailError' = IF trim(value) = <<>> THEN ""
                            ELSE IF ~validateEmail(value)
                                 THEN "Please enter a valid email address"
                                 ELSE ""
    /\ UNCHANGED <<offPageVars, selectedDate, drawerOpen, selectedSlot, confirmedMeeting,
                   name, isSubmitting, isConfirmed, inFlight, settled, zoneVars>>

\* a click on the confirm button: handleSubmit up to the fetch of
\* createBooking
handleSubmit ==
    /\ ConfirmEnabled
    /\ Len(inFlight) + Len(settled) < MaxSubmissions
    /\ isSubmitting' = TRUE
    /\ inFlight' = Append(inFlight, [name |-> name, email |-> email,
                                     start |-> selectedSlot.start,
                                     end |-> selectedSlot.end])
    /\ UNCHANGED <<offPageVars, selectedDate, drawerOpen, selectedSlot, confirmedMeeting,
                   name, email, emailError, isConfirmed, settled, zoneVars>>

\* the drawer is closed ("Change time", "Done" or the drawer's own close);
\* the effect on open then resets the form
handleCloseDrawer ==
    /\ drawerOpen
    /\ drawerOpen' = FALSE
    /\ name' = <<>>
    /\ email' = <<>>
    /\ emailError' = ""
    /\ isSubmitting' = FALSE
    /\ isConfirmed' = FALSE
    /\ UNCHANGED <<offPageVars, selectedDate, selectedSlot, confirmedMeeting, inFlight,
                   settled, zoneVars>>

Without(seq, i) == SubSeq(seq, 1, i - 1) \o SubSeq(seq, i + 1, Len(seq))

\* createBooking resolves: the rest of handleMeetingSubmit, then the rest of
\* handleSubmit
createBookingResolves ==
    \E i \in 1..Len(inFlight) :
        /\ confirmedMeeting' = inFlight[i]
        /\ selectedDate' = Null
        /\ isConfirmed' = TRUE
        /\ isSubmitting' = FALSE
        /\ inFlight' = Without(inFlight, i)
        /\ settled' = Append(settled, [outcome |-> "resolved", request |-> inFlight[i]])
        /\ UNCHANGED <<offPageVars, drawerOpen, selectedSlot, name, email, emailError,
                       zoneVars>>

\* a rejection of createBooking that is taken for a success
createBookingRejects_confirms ==
    \E i \in 1..Len(inFlight) :
        /\ isConfirmed' = TRUE
        /\ isSubmitting' = FALSE
        /\ inFlight' = Without(inFlight, i)
        /\ settled' = Append(settled, [outcome |-> "rejected", request |-> inFlight[i]])
        /\ UNCHANGED <<offPageVars, selectedDate, drawerOpen, selectedSlot,
                       confirmedMeeting, name, email, emailError, zoneVars>>

\* createBooking rejects (a response that is not OK, or no response):
\* handleMeetingSubmit throws, handleSubmit catches and ends in finally
createBookingRejects ==
    \E i \in 1..Len(inFlight) :
        /\ isSubmitting' = FALSE
        /\ inFlight' = Without(inFlight, i)
        /\ settled' = Append(settled, [outcome |-> "rejected", request |-> inFlight[i]])
        /\ UNCHANGED <<offPageVars, selectedDate, drawerOpen, selectedSlot,
                       confirmedMeeting, name, email, emailError, isConfirmed, zoneVars>>

NextBooking ==
    \/ handleDateSelect
    \/ handleSlotClick
    \/ TypeName
    \/ handleEmailChange
    \/ handleSubmit
    \/ handleCloseDrawer
    \/ createBookingResolves
    \/ createBookingRejects

SpecBooking == InitBooking /\ [][NextBooking]_vars

(***************************************************************************)
(* Properties of the booking flow                                          *)
(***************************************************************************)
\* C22: the confirm button is enabled only with a non-blank name, a
\* non-blank email that passes validateEmail and no submission in flight,
\* so that no createBooking request starts before the previous one settled.
C22_OneSubmissionAtATime ==
    /\ ConfirmEnabled =>
           /\ trim(name) # <<>>
           /\ trim(email) # <<>>
           /\ validateEmail(email)
           /\ inFlight = <<>>
    /\ Len(inFlight) <= 1

\* the requests that createBooking resolved
Resolved == {settled[k].request : k \in {j \in 1..Len(settled) : settled[j].outcome = "resolved"}}

\* the slot of a request was listed for the date of this day
ChosenOn(request, day) ==
    \E i \in 1..Len(generateThirtyMinuteSlots(data.availability, CalendarDayProps(day).dateStr)) :
        LET slot == generateThirtyMinuteSlots(data.availability,
                                              CalendarDayProps(day).dateStr)[i]
        IN  slot.start = request.start /\ slot.end = request.end

\* C23: after a booking succeeded for a slot chosen on the selected date D,
\* the calendar button of D has the booked style and is disabled.
C23_BookedDayIsDisabled ==
    \A request \in Resolved : \A day \in CalendarDays :
        ChosenOn(request, day) =>
            /\ stateClasses(CalendarDayProps(day)) = BookedClasses
            /\ disabled(CalendarDayProps(day))

\* C25: whenever the drawer goes from closed to open, its form is in the
\* reset state: name and email empty, no email error, isSubmitting and
\* isConfirmed false.
C25_DrawerOpensReset ==
    [][(~drawerOpen /\ drawerOpen') => DrawerReset']_vars

\* the last settled request was rejected
RejectionStep ==
    /\ Len(settled') = Len(settled) + 1
    /\ settled'[Len(settled')].outcome = "rejected"

\* C26: isConfirmed and confirmedMeeting are set only once createBooking has
\* resolved, and confirmedMeeting is then a request that resolved; a
\* rejection of createBooking leaves isConfirmed, confirmedMeeting and
\* selectedDate as they were and isSubmitting false.
C26_ConfirmationFollowsSuccess ==
    /\ [](/\ isConfirmed => Resolved # {}
          /\ confirmedMeeting # NoMeeting => confirmedMeeting \in Resolved)
    /\ [][RejectionStep =>
              /\ isConfirmed' = isConfirmed
              /\ confirmedMeeting' = confirmedMeeting
              /\ selectedDate' = selectedDate
              /\ isSubmitting' = FALSE]_vars

\* the only submission was rejected while the drawer was open
C26_Witness ==
    /\ Len(settled) = 1
    /\ settled[1].outcome = "rejected"
    /\ inFlight = <<>>
    /\ drawerOpen
    /\ ~isConfirmed
    /\ ~isSubmitting
    /\ confirmedMeeting = NoMeeting
    /\ selectedDate = "2025-12-17"

(***************************************************************************)
(* routes/bookings/+page.svelte: months and time zones                     *)
(***************************************************************************)
MaxMonthsAhead == 2

\* Intl.DateTimeFormat().resolvedOptions().timeZone of the visitor, whose
\* clock is on UTC+0 in December
detectUserTimezone == "Europe/London"

orgTimezone ==
    IF Len(data.availability) = 0 THEN "UTC"
    ELSE getTimezoneFromOffset(TimestampChars(data.availability[1].start), detectedTimezone)

\* addMonths of a first of month
addMonths(dt, amount) ==
    LET months == dt[1] * 12 + (dt[2] - 1) + amount
    IN  <<months \div 12, (months % 12) + 1, 1>>

subMonths(dt, amount) == addMonths(dt, -amount)

lastDayOfMonth(dt) == <<dt[1], dt[2], DaysInMonth(dt[1], dt[2])>>

canGoPrevious == isAfter(DayTime(currentMonth), DayTime(startOfMonth(today)))

\* the calendar block, which holds the month heading and both month buttons
MonthHeaderShown == "calendar" \in Panels(data)

\* the timezone select is rendered
TimezoneSelectShown ==
    /\ MonthHeaderShown
    /\ selectedDate \notin {Null, ""}
    /\ Len(data.availability) > 0
    /\ shouldShowTimezoneSelector(TimestampChars(userTimestamp),
                                  TimestampChars(data.availability[1].start))

\* the dates of the visit: in the middle and on the first of the month
MonthTodays == {<<2025, 12, 16>>, <<2025, 12, 1>>}

\* the visitor opens /bookings
InitMonths ==
    /\ tz = 0
    /\ availability = <<>>
    /\ selectedDate = Null
    /\ date = 0
    /\ thirtyMinSlots = <<>>
    /\ dates = {}
    /\ rounded = 0
    /\ done = {}
    /\ TimezoneIdle
    /\ ProxyIdle
    /\ ButtonIdle
    /\ PageIdle
    /\ today \in MonthTodays
    /\ url = [start |-> Absent, end |-> Absent]
    /\ loadPc = "called"
    /\ apiRequest = [start |-> <<>>, end |-> <<>>]
    /\ fetchOutcome = "none"
    /\ data = NoData

\* ---- actions ----
\* the effect that runs when the page is mounted
mount ==
    /\ loadPc = "returned"
    /\ detectedTimezone = ""
    /\ detectedTimezone' = detectUserTimezone
    /\ selectedTimezone' = IF selectedTimezone = "" THEN detectUserTimezone
                           ELSE selectedTimezone
    /\ UNCHANGED <<offPageVars, selectedDate, drawerOpen, selectedSlot, confirmedMeeting,
                   drawerVars, inFlight, settled>>

\* a choice in the timezone select (bind:value)
SelectTimezone ==
    /\ loadPc = "returned"
    /\ detectedTimezone # ""
    /\ ~drawerOpen
    /\ TimezoneSelectShown
    /\ \E value \in {detectedTimezone, orgTimezone} : selectedTimezone' = value
    /\ UNCHANGED <<offPageVars, selectedDate, drawerOpen, selectedSlot, confirmedMeeting,
                   drawerVars, inFlight, settled, detectedTimezone>>

\* a click on the previous-month or next-month button: changeMonth, whose
\* goto runs load for the new URL
changeMonth ==
    /\ loadPc = "returned"
    /\ detectedTimezone # ""
    /\ ~drawerOpen
    /\ MonthHeaderShown
    /\ \E direction \in {"prev", "next"} :
           LET newMonth == IF direction = "next" THEN addMonths(currentMonth, 1)
                           ELSE subMonths(currentMonth, 1)
               startDate == startOfMonth(newMonth)
               endDate == lastDayOfMonth(newMonth)
           IN  /\ direction = "prev" => canGoPrevious
               /\ direction = "next" =>
                      DayTime(currentMonth) <
                          DayTime(addMonths(startOfMonth(today), MaxMonthsAhead))
               /\ url' = [start |-> Param(DateChars(startDate[1], startDate[2], startDate[3])),
                          end |-> Param(DateChars(endDate[1], endDate[2], endDate[3]))]
    /\ selectedDate' = Null
    /\ loadPc' = "called"
    /\ UNCHANGED <<slicerVars, done, timezoneVars, proxyVars, buttonVars, pageVars>>
    /\ UNCHANGED <<today, apiRequest, fetchOutcome, data>>

NextMonths ==
    \/ load
    \/ FollowRedirect
    \/ FetchOk
    \/ FetchNotOk
    \/ FetchRejects
    \/ FetchOkBadJson
    \/ mount
    \/ handleDateSelect
    \/ SelectTimezone
    \/ changeMonth

SpecMonths == InitMonths /\ [][NextMonths]_vars

(***************************************************************************)
(* Properties of months and time zones                                     *)
(***************************************************************************)
\* C24: once the data of a month reached by the month buttons is loaded, the
\* page shows the heading of that month and the month buttons, whatever
\* availability the month has.
C24_MonthHeaderAfterNavigation ==
    (loadPc = "returned" /\ url.start.present) => MonthHeaderShown

\* C27: once initialised, selectedTimezone is the current detectedTimezone
\* or the current orgTimezone.
C27_SelectedTimezoneIsAnOption ==
    detectedTimezone # "" => selectedTimezone \in {detectedTimezone, orgTimezone}

====
